---- MODULE Spec2Model ----
(***************************************************************************)
(* Model of paropt-service-sdk:                                            *)
(*   - paropt_cli.py: waitForJob (the polling loop) and the __main__       *)
(*     workflow that calls it;                                             *)
(*   - paropt_sdk/utils/auth.py: do_login_flow, make_authorizer, logout,   *)
(*     _revoke_current_tokens, _store_config.                              *)
(* Time is counted in seconds, as time.time() does.                        *)
(***************************************************************************)
EXTENDS Integers, Sequences, FiniteSets, TLC

(***************************************************************************)
(* Program constants (paropt_cli.py)                                       *)
(***************************************************************************)
SECONDS_IN_DAY == 86400
MAX_FAILS == 3

(***************************************************************************)
(* Bounds of the model                                                     *)
(***************************************************************************)
\* largest number of running-jobs queries one waitForJob call may issue
MaxPolls == 4
\* largest max_wait argument (minutes); the smallest is -1
MaxWaitArg == 2
\* largest sleep_interval argument (minutes); the smallest is 0
MaxSleepArg == 2

\* a sleep_interval argument (minutes) that spans the 24 hours in 3 sleeps
LongSleep == 480

MaxWaits == (-1)..MaxWaitArg
SleepIntervals == 0..MaxSleepArg
\* readings of time.time() when waitForJob is entered
StartTimes == {0, 7}
\* seconds time.sleep() may take beyond the requested duration
Oversleeps == {0, 60}
\* seconds a getRunningExperiments() call may take
Latencies == {0, 60, 43200}

JobIds == {"job1", "job2"}
Statuses == {199, 200, 299, 300}

(***************************************************************************)
(* Responses of the remote API: http_status and data                       *)
(***************************************************************************)
JobRecord(id) == [job_id |-> id]

ListData(items) == [type |-> "list", items |-> items]
NonListData == [type |-> "dict", items |-> <<>>]

RunningLists ==
    { <<>>, <<JobRecord("job2")>>, <<JobRecord("job1")>>,
      <<JobRecord("job2"), JobRecord("job1")>> }

RunningPayloads == { ListData(l) : l \in RunningLists } \cup { NonListData }

RunningResponses == [http_status : Statuses, data : RunningPayloads]

NoResponse == [http_status |-> 0, data |-> [type |-> "none", items |-> <<>>]]

\* httpOK mutated: upper end of the range excluded
httpOK_excl(response) ==
    200 <= response.http_status /\ response.http_status < 299

httpOK(response) ==
    200 <= response.http_status /\ response.http_status <= 299

\* isinstance(x, list)
IsList(data) == data.type = "list"

\* the scan of lines 77-81, mutated: only the first record is looked at
IsRunning_first(jobs, id) ==
    Len(jobs) > 0 /\ jobs[1].job_id = id

\* lines 77-81: is some record's job_id equal to the target
IsRunning(jobs, id) ==
    \E i \in 1..Len(jobs) : jobs[i].job_id = id

\* lines 50-53 mutated: the negative case is not special
Deadline_nobranch(t, mw) == t + (mw * 60)

\* lines 50-53: the deadline
Deadline(t, mw) ==
    IF mw < 0 THEN t + SECONDS_IN_DAY ELSE t + (mw * 60)

\* line 58 mutated: the deadline itself still counts as in time
LoopCond_le(t, to, n) == t <= to /\ n < MAX_FAILS

\* line 58 mutated: the failure count may reach MAX_FAILS and go on
LoopCond_failsLe(t, to, n) == t < to /\ n <= MAX_FAILS

\* line 58 mutated: the deadline is not tested
LoopCond_failsOnly(t, to, n) == n < MAX_FAILS

\* line 58 mutated: "or" in place of "and"
LoopCond_or(t, to, n) == t < to \/ n < MAX_FAILS

\* line 58: the loop condition
LoopCond(t, to, n) == t < to /\ n < MAX_FAILS

VARIABLES
    pc,                  \* position of the program
    now,                 \* the clock: what time.time() returns
    job_id,              \* waitForJob parameter
    max_wait,            \* waitForJob parameter
    sleep_interval,      \* waitForJob parameter
    timeout,             \* waitForJob local: the deadline
    sleep_interval_secs, \* waitForJob local
    n_fails,             \* waitForJob local: soft failures counted
    running_res,         \* waitForJob local: the last response
    result,              \* outcome of waitForJob
    start,               \* history: clock when waitForJob was entered
    polls,               \* history: queries issued by this call
    badStreak,           \* history: latest run of consecutive non-2xx polls
    absentSeen,          \* history: a valid poll showed the job absent
    lateQueries,         \* history: queries issued at or after the deadline
    args,                \* __main__: parsed --maxwait and --sleepdur
    exp_res,             \* __main__: response of getOrCreateExperiment
    trial_res,           \* __main__: response of runTrial
    submitted_job_id,    \* __main__: job id taken from the trial response
    failed_res,          \* __main__: response of getFailedExperiments
    printed,             \* __main__: the marker lines printed so far
    exit,                \* __main__: how the process ended
    store,               \* auth: the local config store (option -> text)
    revoked,             \* auth: tokens revoked at the identity provider
    authorizer,          \* auth: what make_authorizer last built
    authLog              \* history: the last auth operation and its inputs

wvars == <<pc, now, job_id, max_wait, sleep_interval, timeout,
           sleep_interval_secs, n_fails, running_res, result, start, polls,
           badStreak, absentSeen, lateQueries>>

cvars == <<args, exp_res, trial_res, submitted_job_id, failed_res, printed,
           exit>>

avars == <<store, revoked, authorizer, authLog>>

vars == <<wvars, cvars, avars>>

\* line 89-92 mutated: the deadline is looked at first
FailureKind_deadlineFirst(n) ==
    IF now >= timeout THEN "Timeout"
    ELSE IF n = MAX_FAILS THEN "TooManyFails" ELSE "Timeout"

\* lines 89-92: which exception ends the call
FailureKind(n) ==
    IF n = MAX_FAILS THEN "TooManyFails" ELSE "Timeout"

(***************************************************************************)
(* The config store and the identity provider (paropt_sdk/utils/auth.py)   *)
(***************************************************************************)
PAROPT_RT_OPTNAME == "paropt_rt"
PAROPT_AT_OPTNAME == "paropt_at"
PAROPT_AT_EXPIRES_OPTNAME == "paropt_at_expires"

OptNames ==
    {PAROPT_RT_OPTNAME, PAROPT_AT_OPTNAME, PAROPT_AT_EXPIRES_OPTNAME}
TokenOpts == {PAROPT_RT_OPTNAME, PAROPT_AT_OPTNAME}

\* what lookup_option returns for an option that is not in the store
None == "<None>"

\* expires_at_seconds values, and their text in the config store
Expiries == {100, 200, 300}
PyStr(n) == CASE n = 100 -> "100" [] n = 200 -> "200" [] OTHER -> "300"
PyInt(t) == CASE t = "100" -> 100 [] t = "200" -> 200 [] OTHER -> 300

EmptyStore == [o \in OptNames |-> None]

\* the config store's operations (paropt_sdk.config)
lookup_option(st, opt) == st[opt]
write_option(st, opt, text) == [st EXCEPT ![opt] = text]
remove_option(st, opt) == [st EXCEPT ![opt] = None]
check_logged_in(st) == \A o \in OptNames : st[o] # None

\* line 77 mutated: a missing token is not told apart from a stored one
Truthy_always(token) == TRUE

\* Python truth of a looked-up token
Truthy(token) == token # None /\ token # ""

\* outcomes the environment gives a revocation call, per token option
RevokeOutcomes == [TokenOpts -> {"ok", "NetworkError"}]

\* token responses of the identity provider
TokenResponses ==
    [refresh_token : {"rt3"}, access_token : {"at3"},
     expires_at_seconds : {300}]

NoAuthorizer == [rt |-> None, at |-> None, expires_at |-> 0]
NoLog ==
    [op |-> "none", pre |-> EmptyStore, preRevoked |-> {},
     net |-> [o \in TokenOpts |-> "ok"], accepted |-> FALSE,
     tkn |-> [refresh_token |-> None, access_token |-> None,
              expires_at_seconds |-> 0],
     calls |-> <<>>, out |-> "none", login |-> FALSE]

AuthIdle ==
    /\ store = EmptyStore
    /\ revoked = {}
    /\ authorizer = NoAuthorizer
    /\ authLog = NoLog

(***************************************************************************)
(* waitForJob called directly                                              *)
(***************************************************************************)
WaitLocalsInit ==
    /\ timeout = 0
    /\ sleep_interval_secs = 0
    /\ n_fails = 0
    /\ running_res = NoResponse
    /\ result = "none"
    /\ start = 0
    /\ polls = 0
    /\ badStreak = 0
    /\ absentSeen = FALSE
    /\ lateQueries = 0

MainLocalsInit ==
    /\ exp_res = NoResponse
    /\ trial_res = NoResponse
    /\ submitted_job_id = "unset"
    /\ failed_res = NoResponse
    /\ printed = {}
    /\ exit = "running"

Init ==
    /\ pc = "call"
    /\ now \in StartTimes
    /\ job_id = "job1"
    /\ max_wait \in MaxWaits
    /\ sleep_interval \in SleepIntervals
    /\ WaitLocalsInit
    /\ args = [maxwait |-> 0, sleepdur |-> 1]
    /\ MainLocalsInit
    /\ AuthIdle

\* lines 50-56
Enter ==
    /\ pc = "call"
    /\ timeout' = Deadline(now, max_wait)
    /\ sleep_interval_secs' = sleep_interval * 60
    /\ n_fails' = 0
    /\ start' = now
    /\ pc' = "loop"
    /\ UNCHANGED <<now, job_id, max_wait, sleep_interval, running_res, result,
                   polls, badStreak, absentSeen, lateQueries>>
    /\ UNCHANGED <<cvars, avars>>

\* lines 58-60: the loop condition holds, the call goes to sleep
Sleep ==
    /\ pc = "loop"
    /\ LoopCond(now, timeout, n_fails)
    /\ polls < MaxPolls
    /\ \E over \in Oversleeps : now' = now + sleep_interval_secs + over
    /\ pc' = "query"
    /\ UNCHANGED <<job_id, max_wait, sleep_interval, timeout,
                   sleep_interval_secs, n_fails, running_res, result, start,
                   polls, badStreak, absentSeen, lateQueries>>
    /\ UNCHANGED <<cvars, avars>>

\* lines 61-86: one query and what the loop body does with its response
Poll ==
    /\ pc = "query"
    /\ \E res \in RunningResponses, lat \in Latencies :
        /\ now' = now + lat
        /\ running_res' = res
        /\ polls' = polls + 1
        /\ badStreak' = IF res.http_status \in 200..299 THEN 0
                        ELSE badStreak + 1
        /\ lateQueries' = IF now >= timeout THEN lateQueries + 1
                          ELSE lateQueries
        /\ IF ~httpOK(res)
           THEN /\ n_fails' = n_fails + 1
                /\ pc' = "loop"
                /\ UNCHANGED <<result, absentSeen>>
           ELSE IF ~IsList(res.data)
           THEN /\ n_fails' = n_fails + 1
                /\ pc' = "loop"
                /\ UNCHANGED <<result, absentSeen>>
           ELSE IF ~IsRunning(res.data.items, job_id)
           THEN /\ result' = "True"
                /\ absentSeen' = TRUE
                /\ pc' = "returned"
                /\ UNCHANGED n_fails
           ELSE /\ pc' = "loop"
                /\ UNCHANGED <<n_fails, result, absentSeen>>
    /\ UNCHANGED <<job_id, max_wait, sleep_interval, timeout,
                   sleep_interval_secs, start>>
    /\ UNCHANGED <<cvars, avars>>

\* lines 58, 88-92: the loop condition fails, the call raises
Exit ==
    /\ pc = "loop"
    /\ ~LoopCond(now, timeout, n_fails)
    /\ result' = FailureKind(n_fails)
    /\ pc' = "raised"
    /\ UNCHANGED <<now, job_id, max_wait, sleep_interval, timeout,
                   sleep_interval_secs, n_fails, running_res, start, polls,
                   badStreak, absentSeen, lateQueries>>
    /\ UNCHANGED <<cvars, avars>>

Next == Enter \/ Sleep \/ Poll \/ Exit

Spec == Init /\ [][Next]_vars

(***************************************************************************)
(* Properties of waitForJob                                                *)
(***************************************************************************)
\* the last response, read without the model's own operators
LastIsOKStatus == running_res.http_status \in 200..299
LastShowsAbsent ==
    /\ LastIsOKStatus
    /\ running_res.data.type = "list"
    /\ \A i \in 1..Len(running_res.data.items) :
           running_res.data.items[i].job_id # job_id

\* C1: once the running-jobs query has returned a non-2xx status on 3
\* consecutive polls, the loop cannot go on and the call ends with the
\* "too many failed calls" exception, never with the timeout one, wherever
\* the clock stands relative to the deadline.
C1_ThreeBadPollsTooManyFails ==
    badStreak >= 3 =>
        /\ n_fails = MAX_FAILS
        /\ pc \in {"loop", "raised"}
        /\ pc = "loop" => ~(now < timeout /\ n_fails < 3)
        /\ pc = "raised" => result = "TooManyFails"

C1_Witness ==
    /\ badStreak = 3
    /\ pc = "raised"
    /\ result = "TooManyFails"
    /\ now >= timeout

\* C2: with max_wait >= 0, when the loop condition is tested max_wait*60
\* seconds or more after the start, with fewer than 3 soft failures counted
\* (no poll has returned success, or the call would have ended), the call
\* raises the timeout exception without another poll; with max_wait = 0 it
\* ends with the timeout exception and not a single poll.
C2_DeadlineStep ==
    (pc = "loop" /\ max_wait >= 0 /\ now >= start + max_wait * 60
        /\ n_fails < 3)
    => (pc' = "raised" /\ result' = "Timeout" /\ polls' = polls)

C2_ZeroWait ==
    (max_wait = 0 /\ pc \notin {"call", "loop"})
    => (pc = "raised" /\ result = "Timeout" /\ polls = 0)

C2_DeadlineGivesTimeout == [][C2_DeadlineStep]_vars /\ []C2_ZeroWait

C2_Witness ==
    /\ max_wait > 0
    /\ pc = "raised"
    /\ result = "Timeout"
    /\ now >= start + max_wait * 60
    /\ polls >= 2
    /\ n_fails = 2
    /\ ~absentSeen

\* C3: when the first query is answered with a 2xx status and a list with no
\* record of the target job, the call has returned True, the soft-failure
\* count is 0, and a call that has returned issues no further query.
C3_FirstPollAbsent ==
    (polls = 1 /\ LastShowsAbsent)
    => (pc = "returned" /\ result = "True" /\ n_fails = 0)

C3_ReturnedStep ==
    pc = "returned" => (polls' = polls /\ pc' = pc /\ result' = result)

C3_FirstPollSuccess == []C3_FirstPollAbsent /\ [][C3_ReturnedStep]_vars

C3_Witness ==
    /\ polls = 1
    /\ LastShowsAbsent
    /\ running_res.http_status = 299
    /\ Len(running_res.data.items) > 0
    /\ result = "True"
    /\ now >= timeout

\* C4: with max_wait < 0 the deadline is the start time plus 86400 seconds:
\* the timeout exception is raised only when 86400 seconds or more have
\* passed since the start, and a poll with a 2xx list without the job makes
\* the call return True whatever soft failures (fewer than 3) came before.
C4_NegativeWaitCeiling ==
    (max_wait < 0 /\ pc # "call") =>
        /\ timeout = start + 86400
        /\ result = "Timeout" => now - start >= 86400
        /\ (polls >= 1 /\ LastShowsAbsent)
              => (pc = "returned" /\ result = "True")

C4_Witness ==
    /\ max_wait < 0
    /\ result = "True"
    /\ n_fails = 2
    /\ polls >= 3
    /\ now - start < 86400
    /\ now - start >= 43200

\* the response of the poll just made (the primed state), read without the
\* model's own operators
PolledNow == polls' = polls + 1
NewIsSoftFailure ==
    \/ running_res'.http_status \notin 200..299
    \/ running_res'.data.type # "list"
NewShowsRunning ==
    /\ running_res'.http_status \in 200..299
    /\ running_res'.data.type = "list"
    /\ \E i \in 1..Len(running_res'.data.items) :
           running_res'.data.items[i].job_id = job_id

\* C13: a poll whose status is outside 200..299 or whose payload is not a
\* list adds exactly one to the soft-failure count and goes back to the loop
\* test; a poll with a 2xx list that contains the target job leaves the
\* count as it is and goes back to the loop test; and once computed at
\* entry, the deadline never changes.
C13_PollStep ==
    /\ (PolledNow /\ NewIsSoftFailure)
          => (n_fails' = n_fails + 1 /\ pc' = "loop" /\ result' = result)
    /\ (PolledNow /\ NewShowsRunning)
          => (n_fails' = n_fails /\ pc' = "loop" /\ result' = result)
    /\ pc # "call" => timeout' = timeout

C13_SoftFailuresCounted == [][C13_PollStep]_vars

C13_Witness ==
    /\ polls = 3
    /\ n_fails = 2
    /\ pc = "loop"
    /\ running_res.http_status = 299
    /\ running_res.data.type = "list"
    /\ Len(running_res.data.items) = 2
    /\ timeout = start + max_wait * 60

\* C20: the soft-failure count stays within 0..3 and never decreases (a
\* valid poll that still shows the job running does not reset it); when it
\* is 3 no query is issued any more and the call ends with the "too many
\* failed calls" exception, also when the three failures were not
\* consecutive polls.
C20_CountStep ==
    /\ n_fails' >= n_fails
    /\ n_fails = 3 => polls' = polls
    /\ (n_fails = 3 /\ pc = "loop")
          => (pc' = "raised" /\ result' = "TooManyFails")

C20_CountRange ==
    /\ n_fails \in 0..3
    /\ (pc = "raised" /\ n_fails = 3) => result = "TooManyFails"
    /\ n_fails = 3 => pc \in {"loop", "raised"}

C20_FailuresCumulative == []C20_CountRange /\ [][C20_CountStep]_vars

C20_Witness ==
    /\ pc = "raised"
    /\ result = "TooManyFails"
    /\ n_fails = 3
    /\ polls = 4
    /\ badStreak = 1
    /\ now < timeout

\* C19: the deadline is tested only at the loop test that precedes the
\* sleep: no iteration starts once the clock has reached the deadline, the
\* clock never goes back, and so at most one query is issued at or after the
\* deadline (by the iteration that was asleep when it passed); that query
\* can still return success.
C19_LoopStep ==
    /\ (pc = "loop" /\ now >= timeout) => pc' # "query"
    /\ now' >= now
    /\ (pc = "query" /\ now >= timeout) => lateQueries' = 1

C19_AtMostOneLateQuery == [](lateQueries <= 1) /\ [][C19_LoopStep]_vars

C19_Witness ==
    /\ lateQueries = 1
    /\ polls >= 2
    /\ pc = "returned"
    /\ result = "True"
    /\ now > timeout

(***************************************************************************)
(* Termination of waitForJob.  The clock advances: every sleep lasts at    *)
(* least the sleep_interval asked for, which is one minute or more, so the *)
(* deadline is reached within max_wait/sleep_interval iterations (3 for    *)
(* the 24 hours with LongSleep).  Every sleep and every query returns:     *)
(* weak fairness of the program's steps.                                   *)
(***************************************************************************)
InitLive ==
    /\ pc = "call"
    /\ now \in StartTimes
    /\ job_id = "job1"
    /\ \/ max_wait \in 0..MaxWaitArg /\ sleep_interval \in 1..MaxSleepArg
       \/ max_wait = -1 /\ sleep_interval = LongSleep
    /\ WaitLocalsInit
    /\ args = [maxwait |-> 0, sleepdur |-> 1]
    /\ MainLocalsInit
    /\ AuthIdle

SpecLive == InitLive /\ [][Next]_vars /\ WF_vars(Next)

C14_Terminated == pc \in {"returned", "raised"}

C14_Outcome ==
    /\ pc = "returned" => (result = "True" /\ LastShowsAbsent)
    /\ pc = "raised" =>
          /\ result \in {"TooManyFails", "Timeout"}
          /\ result = "TooManyFails" <=> n_fails = 3
          /\ result = "Timeout" <=> n_fails < 3
    /\ ~C14_Terminated => result = "none"
    \* the loop is never held up by the bound on the number of queries
    /\ (pc = "loop" /\ now < timeout /\ n_fails < 3) => polls < MaxPolls

C14_FinalStep ==
    C14_Terminated => (pc' = pc /\ result' = result /\ polls' = polls)

\* C14: every execution of waitForJob ends, and ends in exactly one of three
\* outcomes that stays: it returned True (the job was absent from a valid
\* list), it raised the "too many failed calls" exception (exactly when the
\* soft-failure count is 3 at the loop exit), or it raised the timeout
\* exception (exactly when the loop exits with fewer than 3 soft failures).
C14_TerminatesInOneOutcome ==
    /\ <>C14_Terminated
    /\ []C14_Outcome
    /\ [][C14_FinalStep]_vars

C14_Witness ==
    /\ sleep_interval = LongSleep
    /\ pc = "raised"
    /\ result = "TooManyFails"
    /\ n_fails = 3
    /\ polls = 3

(***************************************************************************)
(* The __main__ workflow of paropt_cli.py, from line 136 on (the arguments *)
(* are parsed and both input files are loaded)                             *)
(***************************************************************************)
\* status codes of the workflow's own calls
MainStatuses == {200, 500}

\* data of a getOrCreateExperiment response: a mapping with or without 'id'
ExpResponses == [http_status : MainStatuses, id : {"exp1", "None"}]
\* data of a runTrial response: a mapping with or without job.job_id
TrialResponses == [http_status : MainStatuses, job_id : JobIds \cup {"None"}]

FailedLists ==
    { <<>>, <<JobRecord("job2")>>, <<JobRecord("job2"), JobRecord("job1")>> }
\* data of a getFailedExperiments response: a list of records, None, an empty
\* mapping or a mapping with one key
FailedPayloads ==
    { ListData(l) : l \in FailedLists }
        \cup { [type |-> "none", items |-> <<>>],
               [type |-> "dict", items |-> <<>>],
               [type |-> "dict", items |-> <<[key |-> "message"]>>] }
FailedResponses == [http_status : MainStatuses, data : FailedPayloads]

\* the except clause of lines 180-182
Raise ==
    /\ printed' = printed \cup {"---- Error ----"}
    /\ exit' = "exception"
    /\ pc' = "exited"

InitCli ==
    /\ pc = "main"
    /\ now \in StartTimes
    /\ args \in [maxwait : MaxWaits, sleepdur : SleepIntervals]
    /\ job_id = "unset"
    /\ max_wait = 0
    /\ sleep_interval = 0
    /\ WaitLocalsInit
    /\ MainLocalsInit
    /\ AuthIdle

\* lines 140-149
CreateExperiment ==
    /\ pc = "main"
    /\ \E res \in ExpResponses :
        /\ exp_res' = [http_status |-> res.http_status,
                       data |-> [type |-> "dict",
                                 items |-> <<[key |-> "id", value |-> res.id]>>]]
        /\ IF ~httpOK(res)
           THEN Raise
           ELSE IF res.id = "None"
           THEN Raise
           ELSE /\ pc' = "trial"
                /\ UNCHANGED <<printed, exit>>
    /\ UNCHANGED <<args, trial_res, submitted_job_id, failed_res>>
    /\ UNCHANGED <<now, job_id, max_wait, sleep_interval, timeout,
                   sleep_interval_secs, n_fails, running_res, result, start,
                   polls, badStreak, absentSeen, lateQueries>>
    /\ UNCHANGED avars

\* lines 151-157 mutated: the status of the trial response is not tested
RunTrial_noStatusTest ==
    /\ pc = "trial"
    /\ \E res \in TrialResponses :
        /\ trial_res' = [http_status |-> res.http_status,
                         data |-> [type |-> "dict",
                                   items |-> <<[key |-> "job",
                                                value |-> res.job_id]>>]]
        /\ submitted_job_id' = res.job_id
        /\ pc' = "startwait"
        /\ UNCHANGED <<printed, exit>>
    /\ UNCHANGED <<args, exp_res, failed_res>>
    /\ UNCHANGED <<now, job_id, max_wait, sleep_interval, timeout,
                   sleep_interval_secs, n_fails, running_res, result, start,
                   polls, badStreak, absentSeen, lateQueries>>
    /\ UNCHANGED avars

\* lines 151-157
RunTrial ==
    /\ pc = "trial"
    /\ \E res \in TrialResponses :
        /\ trial_res' = [http_status |-> res.http_status,
                         data |-> [type |-> "dict",
                                   items |-> <<[key |-> "job",
                                                value |-> res.job_id]>>]]
        /\ IF ~httpOK(res)
           THEN /\ Raise
                /\ UNCHANGED submitted_job_id
           ELSE /\ submitted_job_id' = res.job_id
                /\ pc' = "startwait"
                /\ UNCHANGED <<printed, exit>>
    /\ UNCHANGED <<args, exp_res, failed_res>>
    /\ UNCHANGED <<now, job_id, max_wait, sleep_interval, timeout,
                   sleep_interval_secs, n_fails, running_res, result, start,
                   polls, badStreak, absentSeen, lateQueries>>
    /\ UNCHANGED avars

\* line 32: the default of waitForJob's sleep_interval parameter
DefaultSleepInterval == 1

\* line 161: how the call binds waitForJob's parameters
WaitCallArgs ==
    [job_id |-> submitted_job_id, max_wait |-> args.maxwait,
     sleep_interval |-> DefaultSleepInterval]

\* lines 159-161 and 175-178
StartWait ==
    /\ pc = "startwait"
    /\ IF args.maxwait # 0
       THEN /\ job_id' = WaitCallArgs.job_id
            /\ max_wait' = WaitCallArgs.max_wait
            /\ sleep_interval' = WaitCallArgs.sleep_interval
            /\ pc' = "call"
            /\ UNCHANGED <<printed, exit>>
       ELSE /\ printed' = printed \cup {"---- Finished ----"}
            /\ exit' = "0"
            /\ pc' = "exited"
            /\ UNCHANGED <<job_id, max_wait, sleep_interval>>
    /\ UNCHANGED <<args, exp_res, trial_res, submitted_job_id, failed_res>>
    /\ UNCHANGED <<now, timeout, sleep_interval_secs, n_fails, running_res,
                   result, start, polls, badStreak, absentSeen, lateQueries>>
    /\ UNCHANGED avars

\* lines 170-171 raise: iterating None, or indexing a mapping's key
\* (a string) with 'job_id'
ScanRaises(data) ==
    \/ data.type = "none"
    \/ data.type = "dict" /\ Len(data.items) > 0

\* lines 170-171: a scanned record carries the submitted job id
ScanFinds(data, id) ==
    /\ data.type = "list"
    /\ \E i \in 1..Len(data.items) : data.items[i].job_id = id

\* lines 163-178: waitForJob returned; the failed-experiments check
CheckFailed ==
    /\ pc = "returned"
    /\ \E res \in FailedResponses :
        /\ failed_res' = res
        /\ IF ScanRaises(res.data) \/ ScanFinds(res.data, submitted_job_id)
           THEN Raise
           ELSE /\ printed' = printed \cup {"Successfully ran optimizations",
                                            "---- Finished ----"}
                /\ exit' = "0"
                /\ pc' = "exited"
    /\ UNCHANGED <<args, exp_res, trial_res, submitted_job_id>>
    /\ UNCHANGED <<now, job_id, max_wait, sleep_interval, timeout,
                   sleep_interval_secs, n_fails, running_res, result, start,
                   polls, badStreak, absentSeen, lateQueries>>
    /\ UNCHANGED avars

\* lines 180-182: the exception of waitForJob reaches the except clause
Propagate ==
    /\ pc = "raised"
    /\ Raise
    /\ UNCHANGED <<args, exp_res, trial_res, submitted_job_id, failed_res>>
    /\ UNCHANGED <<now, job_id, max_wait, sleep_interval, timeout,
                   sleep_interval_secs, n_fails, running_res, result, start,
                   polls, badStreak, absentSeen, lateQueries>>
    /\ UNCHANGED avars

NextCli ==
    \/ CreateExperiment \/ RunTrial \/ StartWait
    \/ Enter \/ Sleep \/ Poll \/ Exit
    \/ CheckFailed \/ Propagate

SpecCli == InitCli /\ [][NextCli]_vars

\* C5: while the workflow waits for the job, the time the poller asks to
\* sleep before a query is --sleepdur minutes, that is sleepdur*60 seconds.
C5_SleepIsSleepdur ==
    pc \in {"loop", "query"} => sleep_interval_secs = args.sleepdur * 60

(***************************************************************************)
(* Properties of the __main__ workflow                                     *)
(***************************************************************************)
\* getFailedExperiments has been called
FailedChecked == failed_res # NoResponse

\* the submitted job id is the job_id of a record of the failed-experiments
\* payload
JobInFailedList ==
    /\ failed_res.data.type = "list"
    /\ \E i \in 1..Len(failed_res.data.items) :
           failed_res.data.items[i].job_id = submitted_job_id

SuccessPrinted == "Successfully ran optimizations" \in printed

\* C11: after a successful wait, the program prints "Successfully ran
\* optimizations" and ends with exit code 0 if and only if the submitted job
\* id is the job_id of no record of the failed-experiments response; if it
\* is, the program ends with an exception and the message is never printed.
C11_SuccessIffNotFailed ==
    (pc = "exited" /\ FailedChecked) =>
        /\ (SuccessPrinted /\ exit = "0") <=> ~JobInFailedList
        /\ JobInFailedList => (exit = "exception" /\ ~SuccessPrinted)


\* the remote calls made so far
ExperimentAsked == exp_res # NoResponse
TrialAsked == trial_res # NoResponse
ExperimentOK ==
    /\ exp_res.http_status \in 200..299
    /\ exp_res.data.items[1].value # "None"
TrialOK == trial_res.http_status \in 200..299

\* C17: runTrial is called only after getOrCreateExperiment answered 2xx
\* with an id; getRunningExperiments is polled only after runTrial answered
\* 2xx and only with maxwait # 0; getFailedExperiments is asked only after
\* waitForJob returned True; after a non-2xx answer to the experiment
\* creation or to the trial submission no further remote call is made and
\* the program ends with an error.
C17_WorkflowGating ==
    /\ TrialAsked => (ExperimentAsked /\ ExperimentOK)
    /\ polls > 0 => (TrialAsked /\ TrialOK /\ args.maxwait # 0)
    /\ FailedChecked => (polls > 0 /\ result = "True")
    /\ (ExperimentAsked /\ exp_res.http_status \notin 200..299) =>
          /\ ~TrialAsked /\ polls = 0 /\ ~FailedChecked
          /\ pc = "exited" /\ exit = "exception"
          /\ "---- Error ----" \in printed
    /\ (TrialAsked /\ ~TrialOK) =>
          /\ polls = 0 /\ ~FailedChecked
          /\ pc = "exited" /\ exit = "exception"
          /\ "---- Error ----" \in printed

C17_Witness ==
    /\ pc = "exited"
    /\ exit = "0"
    /\ FailedChecked
    /\ TrialOK
    /\ polls >= 2
    /\ args.maxwait = -1

\* C18: when the getFailedExperiments response has a non-2xx status or a
\* payload that is not a list, the payload is not scanned and no error comes
\* of it: the program reports success and ends with exit code 0.
C18_BadFailedResponseSkipped ==
    (pc = "exited" /\ FailedChecked
        /\ (failed_res.http_status \notin 200..299
            \/ failed_res.data.type # "list"))
    => (exit = "0" /\ SuccessPrinted)

(***************************************************************************)
(* Credential manager: paropt_sdk/utils/auth.py                            *)
(***************************************************************************)
\* result of an auth function: the store and the identity provider's revoked
\* set it leaves, the tokens oauth2_revoke_token was called with, in order,
\* how the function ended, and whether do_login_flow was entered
AuthResult(st, rv) == [store |-> st, revoked |-> rv, calls |-> <<>>,
                       out |-> "ok", login |-> FALSE]

RECURSIVE logoutLoop(_, _, _)

\* lines 86-90 mutated: the loop goes on to the next token
OnLogoutNetworkError_continue(r, rest, net) == logoutLoop(r, rest, net)

\* lines 86-90: the except clause prints the message and returns
OnLogoutNetworkError(r, rest, net) == [r EXCEPT !.out = "cancelled"]

\* lines 91-92 mutated: the revoked token's entry is not removed
AfterRevoke_keepEntry(r, opt, token) ==
    [r EXCEPT !.revoked = @ \cup {token}]

\* lines 83, 91-92: the token is revoked, then its entry is removed
AfterRevoke(r, opt, token) ==
    [r EXCEPT !.revoked = @ \cup {token},
              !.store = remove_option(@, opt)]

\* lines 74-92: the loop over (PAROPT_RT_OPTNAME, PAROPT_AT_OPTNAME)
logoutLoop(r, opts, net) ==
    IF opts = <<>> THEN r
    ELSE LET opt == Head(opts)
             token == lookup_option(r.store, opt)
             called == [r EXCEPT !.calls = Append(@, token)]
         IN  IF ~Truthy(token)
             THEN logoutLoop(r, Tail(opts), net)
             ELSE IF net[opt] = "NetworkError"
             THEN OnLogoutNetworkError(called, Tail(opts), net)
             ELSE logoutLoop(AfterRevoke(called, opt, token), Tail(opts), net)

\* lines 65-95 mutated: the expiry is removed although the loop returned
logout_alwaysExpiry(st, rv, net) ==
    LET r == logoutLoop(AuthResult(st, rv),
                        <<PAROPT_RT_OPTNAME, PAROPT_AT_OPTNAME>>, net)
    IN  [r EXCEPT !.store = remove_option(@, PAROPT_AT_EXPIRES_OPTNAME)]

\* lines 65-95 mutated: line 95 is missing
logout_keepExpiry(st, rv, net) ==
    logoutLoop(AuthResult(st, rv),
               <<PAROPT_RT_OPTNAME, PAROPT_AT_OPTNAME>>, net)

\* lines 65-95
logout(st, rv, net) ==
    LET r == logoutLoop(AuthResult(st, rv),
                        <<PAROPT_RT_OPTNAME, PAROPT_AT_OPTNAME>>, net)
    IN  IF r.out = "cancelled" THEN r
        ELSE [r EXCEPT !.store =
                          remove_option(@, PAROPT_AT_EXPIRES_OPTNAME)]

RECURSIVE revokeLoop(_, _, _)
\* lines 105-108: the loop of _revoke_current_tokens; an exception of
\* oauth2_revoke_token is not caught
revokeLoop(r, opts, net) ==
    IF opts = <<>> THEN r
    ELSE LET opt == Head(opts)
             token == lookup_option(r.store, opt)
             called == [r EXCEPT !.calls = Append(@, token)]
         IN  IF Truthy(token)
             THEN IF net[opt] = "NetworkError"
                  THEN [called EXCEPT !.out = "NetworkError"]
                  ELSE revokeLoop([called EXCEPT !.revoked = @ \cup {token}],
                                  Tail(opts), net)
             ELSE revokeLoop(r, Tail(opts), net)

\* lines 98-108
_revoke_current_tokens(r, net) ==
    revokeLoop(r, <<PAROPT_RT_OPTNAME, PAROPT_AT_OPTNAME>>, net)

\* lines 111-126
_store_config(st, tkn) ==
    LET paropt_at == tkn.access_token
        paropt_rt == tkn.refresh_token
        paropt_at_expires == tkn.expires_at_seconds
    IN  write_option(
          write_option(
            write_option(st, PAROPT_RT_OPTNAME, paropt_rt),
            PAROPT_AT_OPTNAME, paropt_at),
          PAROPT_AT_EXPIRES_OPTNAME, PyStr(paropt_at_expires))

\* names bound at the module level of auth.py (lines 4-10 and the defs)
ModuleNames ==
    {"platform", "globus_sdk", "RefreshTokenAuthorizer",
     "internal_auth_client", "safeprint", "lookup_option", "write_option",
     "remove_option", "check_logged_in", "PAROPT_RT_OPTNAME",
     "PAROPT_AT_OPTNAME", "PAROPT_AT_EXPIRES_OPTNAME", "do_login_flow",
     "make_authorizer", "logout", "_revoke_current_tokens", "_store_config"}
\* names do_login_flow has bound when line 26 runs (lines 20-24)
LoginLocals == {"native_client", "label", "PAROPT_SCOPE"}
\* the identifier line 27 passes as requested_scopes
RequestedScopesName == "FUNCX_SCOPE"
NameBound(n) == n \in LoginLocals \cup ModuleNames

\* lines 13-37; inp: whether the identity provider accepts the code typed
\* in, the token response it then gives, the outcomes of revocation calls
do_login_flow(st, rv, inp) ==
    LET r0 == [AuthResult(st, rv) EXCEPT !.login = TRUE]
    IN  IF ~NameBound(RequestedScopesName)
        THEN [r0 EXCEPT !.out = "NameError"]
        ELSE IF ~inp.accepted
        THEN [r0 EXCEPT !.out = "AuthAPIError"]
        ELSE LET r1 == _revoke_current_tokens(r0, inp.net)
             IN  IF r1.out # "ok" THEN r1
                 ELSE [r1 EXCEPT !.store = _store_config(@, inp.tkn)]

\* lines 40-62 mutated: the login flow is run without asking check_logged_in
make_authorizer_alwaysLogin(st, rv, inp) ==
    LET r == do_login_flow(st, rv, inp)
        rf_token == lookup_option(r.store, PAROPT_RT_OPTNAME)
        at_token == lookup_option(r.store, PAROPT_AT_OPTNAME)
        at_expires == PyInt(lookup_option(r.store, PAROPT_AT_EXPIRES_OPTNAME))
    IN  [res |-> r,
         authorizer |-> IF r.out = "ok"
                        THEN [rt |-> rf_token, at |-> at_token,
                              expires_at |-> at_expires]
                        ELSE NoAuthorizer]

\* lines 40-62: the result of the login (if any) and the authorizer built
make_authorizer(st, rv, inp) ==
    LET r == IF ~check_logged_in(st) THEN do_login_flow(st, rv, inp)
             ELSE AuthResult(st, rv)
        rf_token == lookup_option(r.store, PAROPT_RT_OPTNAME)
        at_token == lookup_option(r.store, PAROPT_AT_OPTNAME)
        at_expires == PyInt(lookup_option(r.store, PAROPT_AT_EXPIRES_OPTNAME))
    IN  [res |-> r,
         authorizer |-> IF r.out = "ok"
                        THEN [rt |-> rf_token, at |-> at_token,
                              expires_at |-> at_expires]
                        ELSE NoAuthorizer]

FullStores ==
    { [o \in OptNames |->
         IF o = PAROPT_RT_OPTNAME THEN rt
         ELSE IF o = PAROPT_AT_OPTNAME THEN at ELSE PyStr(ex)] :
      rt \in {"rt1", "rt2"}, at \in {"at1"}, ex \in {100, 200} }

LoginInputs ==
    [accepted : BOOLEAN, tkn : TokenResponses, net : RevokeOutcomes]

InitAuth ==
    /\ pc = "auth"
    /\ now = 0
    /\ job_id = "unset"
    /\ max_wait = 0
    /\ sleep_interval = 0
    /\ WaitLocalsInit
    /\ args = [maxwait |-> 0, sleepdur |-> 1]
    /\ MainLocalsInit
    /\ store \in FullStores \cup {EmptyStore}
    /\ revoked = {}
    /\ authorizer = NoAuthorizer
    /\ authLog = NoLog

LogOf(op, inp, r) ==
    [op |-> op, pre |-> store, preRevoked |-> revoked, net |-> inp.net,
     accepted |-> inp.accepted, tkn |-> inp.tkn, calls |-> r.calls,
     out |-> r.out, login |-> r.login]

\* a call of do_login_flow()
Login ==
    /\ \E inp \in LoginInputs :
        LET r == do_login_flow(store, revoked, inp)
        IN  /\ store' = r.store
            /\ revoked' = r.revoked
            /\ authLog' = LogOf("login", inp, r)
    /\ UNCHANGED authorizer
    /\ UNCHANGED <<wvars, cvars>>

\* a call of logout()
Logout ==
    /\ \E net \in RevokeOutcomes :
        LET r == logout(store, revoked, net)
        IN  /\ store' = r.store
            /\ revoked' = r.revoked
            /\ authLog' = LogOf("logout",
                                [net |-> net, accepted |-> FALSE,
                                 tkn |-> NoLog.tkn], r)
    /\ UNCHANGED authorizer
    /\ UNCHANGED <<wvars, cvars>>

\* a call of make_authorizer()
EnsureAuthorizer ==
    /\ \E inp \in LoginInputs :
        LET m == make_authorizer(store, revoked, inp)
        IN  /\ store' = m.res.store
            /\ revoked' = m.res.revoked
            /\ authorizer' = m.authorizer
            /\ authLog' = LogOf("make_authorizer", inp, m.res)
    /\ UNCHANGED <<wvars, cvars>>

NextAuth == Login \/ Logout \/ EnsureAuthorizer

SpecAuth == InitAuth /\ [][NextAuth]_vars

(***************************************************************************)
(* Properties of the credential manager                                    *)
(***************************************************************************)
Present(st, opt) == st[opt] # None /\ st[opt] # ""

\* the logout stopped at the refresh token: it was stored and its
\* revocation raised a network error
RefreshRevocationFailed ==
    /\ authLog.op = "logout"
    /\ Present(authLog.pre, PAROPT_RT_OPTNAME)
    /\ authLog.net[PAROPT_RT_OPTNAME] = "NetworkError"

\* the logout stopped at the access token: the loop got past the refresh
\* token, and the revocation of the stored access token raised a network error
AccessRevocationFailed ==
    /\ authLog.op = "logout"
    /\ ~RefreshRevocationFailed
    /\ Present(authLog.pre, PAROPT_AT_OPTNAME)
    /\ authLog.net[PAROPT_AT_OPTNAME] = "NetworkError"

\* C6: after a logout that started with both tokens stored and whose
\* revocation of the refresh token raised a network error, the access token
\* entry has its original value and the only revocation call made was the
\* one for the refresh token.
C6_AccessTokenUntouched ==
    (RefreshRevocationFailed /\ Present(authLog.pre, PAROPT_AT_OPTNAME))
    => /\ store[PAROPT_AT_OPTNAME] = authLog.pre[PAROPT_AT_OPTNAME]
       /\ authLog.calls = <<authLog.pre[PAROPT_RT_OPTNAME]>>

C6_Witness ==
    /\ RefreshRevocationFailed
    /\ Present(authLog.pre, PAROPT_AT_OPTNAME)
    /\ authLog.net[PAROPT_AT_OPTNAME] = "ok"
    /\ store[PAROPT_AT_OPTNAME] = "at1"

\* C7 as stated: after a logout in which a revocation call raised a network
\* error, the refresh token and access token entries equal those before it.
C7_TokensIntactAfterFailure ==
    (RefreshRevocationFailed \/ AccessRevocationFailed)
    => /\ store[PAROPT_RT_OPTNAME] = authLog.pre[PAROPT_RT_OPTNAME]
       /\ store[PAROPT_AT_OPTNAME] = authLog.pre[PAROPT_AT_OPTNAME]

\* C7 amended: a revocation call that raises a network error stops the
\* logout at that token: the entry of that token, the entries the loop has
\* not reached and the expiry entry are as before the call; so a failure at
\* the refresh token leaves the whole store as it was, and a failure at the
\* access token leaves the access token and the expiry as they were, the
\* refresh token entry (revoked before, if there was one) being removed.
C7_LogoutStopsAtFailure ==
    /\ RefreshRevocationFailed => store = authLog.pre
    /\ AccessRevocationFailed =>
          /\ store[PAROPT_AT_OPTNAME] = authLog.pre[PAROPT_AT_OPTNAME]
          /\ store[PAROPT_AT_EXPIRES_OPTNAME] =
                 authLog.pre[PAROPT_AT_EXPIRES_OPTNAME]
          /\ store[PAROPT_RT_OPTNAME] = None
          /\ revoked = authLog.preRevoked
                \cup ({authLog.pre[PAROPT_RT_OPTNAME]} \ {None})

C7_Witness ==
    /\ AccessRevocationFailed
    /\ Present(authLog.pre, PAROPT_RT_OPTNAME)
    /\ store[PAROPT_RT_OPTNAME] = None
    /\ store[PAROPT_AT_OPTNAME] = "at1"
    /\ authLog.pre[PAROPT_RT_OPTNAME] \in revoked

StoreFull == \A o \in OptNames : store[o] # None
StoreAbsent == \A o \in OptNames : store[o] = None

\* C8 as stated: the store holds all three entries or none of them.
C8_RecordWholeOrAbsent == StoreFull \/ StoreAbsent

\* C8 amended: the store holds all three entries, none of them, or the
\* access token and the expiry without the refresh token (what a logout
\* leaves when it revoked the refresh token and the revocation of the access
\* token raised a network error); no other partial record occurs.
C8_RecordWholeAbsentOrHalfLoggedOut ==
    \/ StoreFull
    \/ StoreAbsent
    \/ /\ store[PAROPT_RT_OPTNAME] = None
       /\ store[PAROPT_AT_OPTNAME] # None
       /\ store[PAROPT_AT_EXPIRES_OPTNAME] # None

C8_Witness ==
    /\ authLog.op = "make_authorizer"
    /\ authLog.pre = store
    /\ ~StoreAbsent
    /\ ~StoreFull

\* a revocation call of the login's pre-revocation step raises a network
\* error: a stored token whose revocation the environment fails
PreRevocationFails ==
    \E o \in TokenOpts :
        Present(authLog.pre, o) /\ authLog.net[o] = "NetworkError"

StoreHolds(tkn) ==
    /\ store[PAROPT_RT_OPTNAME] = tkn.refresh_token
    /\ store[PAROPT_AT_OPTNAME] = tkn.access_token
    /\ store[PAROPT_AT_EXPIRES_OPTNAME] = PyStr(tkn.expires_at_seconds)

\* C9: a login whose code the identity provider accepts and whose
\* pre-revocation of the stored tokens meets a network error still stores
\* the new refresh token, access token and expiry, and does not end with
\* that error.
C9_PreRevocationNotFatal ==
    (authLog.op = "login" /\ authLog.accepted /\ PreRevocationFails)
    => (StoreHolds(authLog.tkn) /\ authLog.out # "NetworkError")

\* C10: a login whose code the identity provider accepts (and no revocation
\* call fails) ends normally with the store holding the refresh token,
\* access token and expiry of the new token response.
C10_LoginStoresTokens ==
    (authLog.op = "login" /\ authLog.accepted /\ ~PreRevocationFails)
    => (authLog.out = "ok" /\ StoreHolds(authLog.tkn))

\* a valid token record: all three entries are in the store
ValidRecord(st) == \A o \in OptNames : st[o] # None

\* the number a stored expiry text stands for
ExpiryOf(text) == IF text = "100" THEN 100 ELSE IF text = "200" THEN 200
                  ELSE 300

\* C12: make_authorizer runs the login flow if and only if no valid token
\* record is stored when it is called; with a valid record it runs no login,
\* makes no revocation call, leaves the store as it was, and builds the
\* authorizer from the stored refresh token, access token and expiry.
C12_LoginOnlyWithoutRecord ==
    authLog.op = "make_authorizer" =>
        /\ authLog.login <=> ~ValidRecord(authLog.pre)
        /\ ValidRecord(authLog.pre) =>
              /\ store = authLog.pre
              /\ revoked = authLog.preRevoked
              /\ authLog.calls = <<>>
              /\ authLog.out = "ok"
              /\ authorizer =
                    [rt |-> authLog.pre[PAROPT_RT_OPTNAME],
                     at |-> authLog.pre[PAROPT_AT_OPTNAME],
                     expires_at |->
                        ExpiryOf(authLog.pre[PAROPT_AT_EXPIRES_OPTNAME])]

C12_Witness ==
    /\ authLog.op = "make_authorizer"
    /\ ValidRecord(authLog.pre)
    /\ authorizer = [rt |-> "rt2", at |-> "at1", expires_at |-> 200]
    /\ ~authLog.login

\* C15 as stated: after any logout the expiry entry is absent.
C15_ExpiryAlwaysCleared ==
    authLog.op = "logout" => store[PAROPT_AT_EXPIRES_OPTNAME] = None

\* C15 amended: after a logout in which no revocation call raised a network
\* error, whether the tokens were stored or not, the expiry entry is absent;
\* after a logout stopped by such an error the expiry entry is as it was.
C15_ExpiryClearedUnlessStopped ==
    authLog.op = "logout" =>
        IF RefreshRevocationFailed \/ AccessRevocationFailed
        THEN store[PAROPT_AT_EXPIRES_OPTNAME] =
                 authLog.pre[PAROPT_AT_EXPIRES_OPTNAME]
        ELSE store[PAROPT_AT_EXPIRES_OPTNAME] = None

C15_Witness ==
    /\ authLog.op = "logout"
    /\ ~Present(authLog.pre, PAROPT_RT_OPTNAME)
    /\ Present(authLog.pre, PAROPT_AT_OPTNAME)
    /\ authLog.pre[PAROPT_AT_EXPIRES_OPTNAME] = "200"
    /\ store[PAROPT_AT_EXPIRES_OPTNAME] = None

\* the tokens a logout could have asked to revoke, in the loop's order
StoredTokensInOrder ==
    (IF Present(authLog.pre, PAROPT_RT_OPTNAME)
        THEN <<authLog.pre[PAROPT_RT_OPTNAME]>> ELSE <<>>)
    \o (IF Present(authLog.pre, PAROPT_AT_OPTNAME)
        THEN <<authLog.pre[PAROPT_AT_OPTNAME]>> ELSE <<>>)

\* C16: in a logout the revocation calls are made for the stored tokens
\* only, refresh before access (a missing entry gets no call and does not
\* keep the other token from being processed), and an entry has been removed
\* only if the revocation call for that very token was made and did not
\* raise a network error, the token then being revoked at the provider.
C16_RemoveOnlyAfterRevoke ==
    authLog.op = "logout" =>
        /\ \E k \in 0..Len(StoredTokensInOrder) :
              authLog.calls = SubSeq(StoredTokensInOrder, 1, k)
        /\ (~RefreshRevocationFailed) => authLog.calls = StoredTokensInOrder
        /\ \A o \in TokenOpts :
              (Present(authLog.pre, o) /\ store[o] = None) =>
                  /\ authLog.net[o] = "ok"
                  /\ \E i \in 1..Len(authLog.calls) :
                         authLog.calls[i] = authLog.pre[o]
                  /\ authLog.pre[o] \in revoked
        /\ \A o \in TokenOpts : store[o] \in {None, authLog.pre[o]}

C16_Witness ==
    /\ authLog.op = "logout"
    /\ ~Present(authLog.pre, PAROPT_RT_OPTNAME)
    /\ authLog.calls = <<"at1">>
    /\ store[PAROPT_AT_OPTNAME] = None
    /\ "at1" \in revoked

====
